---- MODULE Spec2Model ----
(***************************************************************************)
(* LiteDB: the DB registry (src/src/db.py) and the table operations       *)
(* Select / Insert / Delete / Update / CreateTable (src/src/operations.py)*)
(* over a model of the sqlite3 connection they drive.                     *)
(*                                                                         *)
(* The specifications share the variables:                                  *)
(*   Spec     - the registry: discovery, create_table, drop_tables,       *)
(*              tables(), over catalogs of every shape of table name;     *)
(*   SpecOps  - the row operations over a database of two tables;         *)
(*   SpecRoundTrip - Insert and Select alone, for the round trip;         *)
(*   SpecArgs - every call that checks its arguments, over a database     *)
(*              that already holds rows.                                  *)
(***************************************************************************)
EXTENDS Integers, Sequences, FiniteSets, TLC

VARIABLES
    schema,         \* sqlite_master: lower-cased key -> [name, columns]
    committed,      \* durable rows: key -> sequence of row tuples
    working,        \* rows as the connection sees them (open transaction)
    attrs,          \* DB instance __dict__ without the tables cache
    table_names,    \* DB.table_names
    tables_cache,   \* the cached_property slot of DB.tables
    gen,            \* stamp of the last discovery that built Table objects
    custom_tables,  \* DB.custom_tables (class variable)
    last            \* the last call: its input and its outcome

vars == <<schema, committed, working, attrs, table_names, tables_cache, gen,
          custom_tables, last>>

-----------------------------------------------------------------------------
(* Bounds *)

MaxGen == 3
MaxRows == 2
MaxBatch == 2

-----------------------------------------------------------------------------
(* Names *)

TableNameUniverse == {"Foo", "bar", "path", "create_table"}

\* str.lower() on the names of the model
Lower(n) == CASE n = "Foo" -> "foo"
              [] n = "Bar" -> "bar"
              [] OTHER -> n

\* attributes every DB object has from its class
ClassAttrs == {"initialize_tables", "tables", "drop_tables", "__iter__", "__init__"}

-----------------------------------------------------------------------------
(* Values: None, int, str (a str is its sequence of characters) *)

Null == [t |-> "null", i |-> 0, s |-> <<>>]
IntV(n) == [t |-> "int", i |-> n, s |-> <<>>]
StrV(cs) == [t |-> "str", i |-> 0, s |-> cs]

-----------------------------------------------------------------------------
(* Objects bound as attributes of the DB *)

OtherObj == [kind |-> "Other", name |-> "", id |-> 0]
CreateTableObj == [kind |-> "CreateTable", name |-> "", id |-> 0]
TableObj(n, stamp) == [kind |-> "Table", name |-> n, id |-> stamp]

IsTable(o) == o.kind = "Table"

SetAttr(a, k, v) == [x \in DOMAIN a \cup {k} |-> IF x = k THEN v ELSE a[x]]
DelAttr(a, k) == [x \in DOMAIN a \ {k} |-> a[x]]

HasAttrNever(a, n) == n \in ClassAttrs
\* hasattr(self, n)
HasAttr(a, n) == n \in DOMAIN a \/ n \in ClassAttrs

\* the registry part of a DB object, threaded through the methods
Reg(a, tn, c, g) == [attrs |-> a, table_names |-> tn, cache |-> c, gen |-> g]

NoCache == [set |-> FALSE, val |-> <<>>]

-----------------------------------------------------------------------------
(* DB.tables: the tuple getattr(self, n) for n in table_names, as n -> object *)

TablesRaises(a, tn) == \E n \in tn : ~HasAttr(a, n)

TablesValueEmpty(a, tn) == [n \in {} |-> OtherObj]
TablesValue(a, tn) == [n \in tn |-> a[n]]

\* reading self.tables: the cached tuple when there is one
TablesRead(r) ==
    IF r.cache.set THEN [err |-> "none", val |-> r.cache.val, reg |-> r]
    ELSE IF TablesRaises(r.attrs, r.table_names)
         THEN [err |-> "AttributeError", val |-> <<>>, reg |-> r]
         ELSE LET v == TablesValue(r.attrs, r.table_names)
              IN [err |-> "none", val |-> v,
                  reg |-> [r EXCEPT !.cache = [set |-> TRUE, val |-> v]]]

-----------------------------------------------------------------------------
(* DB.initialize_tables *)

RECURSIVE CustomLoop(_, _, _)
CustomLoop(r, customs, i) ==
    IF i > Len(customs) THEN r
    ELSE LET t == customs[i]
             k == Lower(t.name)
         IN IF HasAttr(r.attrs, k)
            THEN CustomLoop(r, customs, i + 1)
            ELSE CustomLoop([r EXCEPT !.attrs = SetAttr(@, k, t),
                                      !.table_names = @ \cup {t.name}],
                            customs, i + 1)

DiscoverLoop(r, sch) ==
    LET names == {sch[k].name : k \in DOMAIN sch}
        fresh == {n \in names : ~HasAttr(r.attrs, Lower(n))}
        stamp == r.gen + 1
        keys == {Lower(n) : n \in fresh}
        built(k) == TableObj((CHOOSE n \in fresh : Lower(n) = k), stamp)
    IN IF fresh = {} THEN r
       ELSE [r EXCEPT
               !.attrs = [x \in DOMAIN r.attrs \cup keys |->
                            IF x \in keys THEN built(x) ELSE r.attrs[x]],
               !.table_names = @ \cup keys,
               !.gen = stamp]

\* if hasattr(self, "tables"): del self.tables
DropTablesCache(r) ==
    LET t == TablesRead(r)
    IN IF t.err = "none" THEN [t.reg EXCEPT !.cache = NoCache] ELSE r

initialize_tables(r, sch, customs) ==
    DropTablesCache(DiscoverLoop(CustomLoop(r, customs, 1), sch))

-----------------------------------------------------------------------------
(* DB.__init__ *)

InstanceAttrs == {"path", "connect", "cursor", "execute", "commit",
                  "use_datacls", "table_names"}

DBInit(sch, customs) ==
    LET r0 == Reg([x \in InstanceAttrs |-> OtherObj], {}, NoCache, 0)
        r1 == initialize_tables(r0, sch, customs)
    IN [r1 EXCEPT !.attrs = SetAttr(@, "create_table", CreateTableObj)]

-----------------------------------------------------------------------------
(* The storage engine: typed columns, comparison, statements *)

Digits == <<"0", "1", "2", "3", "4", "5", "6", "7", "8", "9">>
IsDigit(c) == \E d \in 1..10 : Digits[d] = c
DigitVal(c) == (CHOOSE d \in 1..10 : Digits[d] = c) - 1

RECURSIVE DigitsToInt(_)
DigitsToInt(cs) ==
    IF cs = <<>> THEN 0
    ELSE 10 * DigitsToInt(SubSeq(cs, 1, Len(cs) - 1)) + DigitVal(cs[Len(cs)])

RECURSIVE IntToStr(_)
IntToStr(n) ==
    IF n < 10 THEN <<Digits[n + 1]>>
    ELSE Append(IntToStr(n \div 10), Digits[(n % 10) + 1])

LooksNumeric(cs) == cs # <<>> /\ \A j \in 1..Len(cs) : IsDigit(cs[j])

\* a column's affinity applied to a value: on storing it, and to the other
\* operand of a comparison with the column
ApplyAffinity(aff, v) ==
    CASE aff = "INTEGER" /\ v.t = "str" /\ LooksNumeric(v.s) -> IntV(DigitsToInt(v.s))
      [] aff = "TEXT" /\ v.t = "int" -> StrV(IntToStr(v.i))
      [] OTHER -> v

\* column = value, never true of NULL
SqlEq(aff, stored, other) ==
    LET o == ApplyAffinity(aff, other)
    IN stored.t # "null" /\ o.t # "null" /\ stored = o

ColNames(cols) == [i \in 1..Len(cols) |-> cols[i].name]
HasCol(cols, c) == \E i \in 1..Len(cols) : cols[i].name = c
ColIndex(cols, c) == CHOOSE i \in 1..Len(cols) : cols[i].name = c

\* no two rows agree on a non-NULL value of a UNIQUE column
UniqueOk(cols, rows) ==
    \A c \in 1..Len(cols) : cols[c].unique =>
        \A i, j \in 1..Len(rows) :
            (i # j /\ rows[i][c].t # "null") => rows[i][c] # rows[j][c]

StoreRow(cols, r) == [i \in 1..Len(cols) |-> ApplyAffinity(cols[i].aff, r[i])]

\* cursor.executemany("INSERT INTO t VALUES(?, ...)", batch): one statement
\* per row; the first failing row raises and the rows before it stay in the
\* open transaction
RECURSIVE ExecInsertMany(_, _, _, _)
ExecInsertMany(cols, rows, batch, i) ==
    IF i > Len(batch) THEN [err |-> "none", rows |-> rows]
    ELSE IF Len(batch[i]) # Len(cols)
         THEN [err |-> "OperationalError", rows |-> rows]
         ELSE LET next == Append(rows, StoreRow(cols, batch[i]))
              IN IF UniqueOk(cols, next)
                 THEN ExecInsertMany(cols, next, batch, i + 1)
                 ELSE [err |-> "IntegrityError", rows |-> rows]

\* connection.commit()
Commit(w) == w

-----------------------------------------------------------------------------
(* TableOperation._make_operator_query *)

Operators == {"AND", "or", ",", "XOR"}

LowerOp(op) == CASE op = "AND" -> "and"
                [] op = "OR" -> "or"
                [] op = "XOR" -> "xor"
                [] OTHER -> op

OperatorOk(op) == LowerOp(op) \in {"and", "or", ","}

\* one rendered entry: key is NULL | key = :key | key = 'text' | key = number
Clause(value, without_parameters) ==
    IF value.t = "null" THEN [kind |-> "isnull", v |-> Null]
    ELSE IF ~without_parameters THEN [kind |-> "param", v |-> Null]
    ELSE IF value.t = "str" THEN [kind |-> "strlit", v |-> value]
    ELSE [kind |-> "numlit", v |-> value]

_make_operator_query(data, operator, without_parameters) ==
    IF ~OperatorOk(operator)
    THEN [err |-> "ValueError", op |-> operator, clauses |-> <<>>]
    ELSE [err |-> "none", op |-> operator,
          clauses |-> [k \in DOMAIN data |-> Clause(data[k], without_parameters)]]

-----------------------------------------------------------------------------
(* The engine's reading of a rendered clause list *)

Quote == "'"

\* a text literal is cut at the first quote inside it
LiteralOk(cl) == cl.kind = "strlit" => \A j \in 1..Len(cl.v.s) : cl.v.s[j] # Quote

\* the WHERE clause parses and names only columns
WhereOk(cols, q) ==
    /\ DOMAIN q.clauses # {}
    /\ \A k \in DOMAIN q.clauses : HasCol(cols, k) /\ LiteralOk(q.clauses[k])
    /\ (LowerOp(q.op) = "," => Cardinality(DOMAIN q.clauses) = 1)

ClauseHolds(cols, row, k, cl, params) ==
    LET c == ColIndex(cols, k)
    IN CASE cl.kind = "isnull" -> row[c].t = "null"
         [] cl.kind = "param" -> SqlEq(cols[c].aff, row[c], params[k])
         [] OTHER -> SqlEq(cols[c].aff, row[c], cl.v)

WhereHolds(cols, row, q, params) ==
    IF LowerOp(q.op) = "or"
    THEN \E k \in DOMAIN q.clauses : ClauseHolds(cols, row, k, q.clauses[k], params)
    ELSE \A k \in DOMAIN q.clauses : ClauseHolds(cols, row, k, q.clauses[k], params)

\* UPDATE ... SET takes only column = expression
SetOk(cols, q) ==
    /\ DOMAIN q.clauses # {}
    /\ \A k \in DOMAIN q.clauses : HasCol(cols, k) /\ q.clauses[k].kind # "isnull"

RECURSIVE KeepSeq(_, _)
\* the subsequence of rows at the indices i with keep[i]
KeepSeq(rows, keep) ==
    IF rows = <<>> THEN <<>>
    ELSE LET n == Len(rows)
             init == KeepSeq(SubSeq(rows, 1, n - 1), keep)
         IN IF keep[n] THEN Append(init, rows[n]) ELSE init

-----------------------------------------------------------------------------
(* Table and Row: the interface the operations use *)

Key(obj) == Lower(obj.name)

\* Table.column_names: the declared column order
column_names(sch, obj) == ColNames(sch[Key(obj)].columns)

\* row_cls(table=..., changed_columns=..., **values)
Row(obj, changed, values) == [table |-> obj.name, vals |-> values, changed |-> changed]

\* what every call answers: the error raised ("none": it returned), the rows
\* of the connection and the durable rows after it, and the value returned
Outcome(e, w, c, res) == [err |-> e, w |-> w, c |-> c, result |-> res]

EmptyMap == <<>>
IsEmptyMap(m) == DOMAIN m = {}

-----------------------------------------------------------------------------
(* Select *)

ChangedNone(names) == {}

\* dict(zip(column_names, item))
ZipRow(names, item) ==
    LET n == IF Len(names) < Len(item) THEN Len(names) ELSE Len(item)
    IN [c \in {names[i] : i \in 1..n} |->
          item[CHOOSE i \in 1..n : names[i] = c /\ \A j \in (i + 1)..n : names[j] # c]]

_as_list_row(sch, obj, items) ==
    [i \in 1..Len(items) |->
        Row(obj, ChangedNone(column_names(sch, obj)),
            ZipRow(column_names(sch, obj), items[i]))]

\* fetchmany(size) when size is truthy, fetchall() otherwise
Fetch(rows, size) ==
    IF size # 0 /\ size < Len(rows) THEN SubSeq(rows, 1, size) ELSE rows

SelectCall(sch, w, c, obj, size, operator, filter_by) ==
    LET cols == sch[Key(obj)].columns
        rows == w[Key(obj)]
    IN IF ~IsEmptyMap(filter_by)
       THEN LET q == _make_operator_query(filter_by, operator, FALSE)
            IN IF q.err # "none" THEN Outcome(q.err, w, c, <<>>)
               ELSE IF ~WhereOk(cols, q) THEN Outcome("OperationalError", w, c, <<>>)
               ELSE LET hit == KeepSeq(rows,
                                [i \in 1..Len(rows) |->
                                    WhereHolds(cols, rows[i], q, filter_by)])
                    IN Outcome("none", w, c, _as_list_row(sch, obj, Fetch(hit, size)))
       ELSE Outcome("none", w, c, _as_list_row(sch, obj, Fetch(rows, size)))

-----------------------------------------------------------------------------
(* Insert *)

\* dict.get
Get(m, k) == IF k \in DOMAIN m THEN m[k] ELSE Null

PrepareReversed(m, names) == [i \in 1..Len(names) |-> Get(m, names[Len(names) + 1 - i])]
_prepare_input_data(m, names) == [i \in 1..Len(names) |-> Get(m, names[i])]

\* bool(tuple): a tuple is falsy only when it has no element
Truthy(tuple) == Len(tuple) > 0

\* data: [form: "dict" | "list", items: the mappings]
InsertCall(sch, w, c, obj, data) ==
    LET k == Key(obj)
        cols == sch[k].columns
        insert_data == [i \in 1..Len(data.items) |->
                           _prepare_input_data(data.items[i], column_names(sch, obj))]
    IN IF ~(\A i \in 1..Len(insert_data) : Truthy(insert_data[i]))
       THEN Outcome("none", w, c, <<>>)
       ELSE IF insert_data = <<>> THEN Outcome("IndexError", w, c, <<>>)
       ELSE LET r == ExecInsertMany(cols, w[k], insert_data, 1)
                w2 == [w EXCEPT ![k] = r.rows]
            IN IF r.err # "none" THEN Outcome(r.err, w2, c, <<>>)
               ELSE Outcome("none", w2, Commit(w2), <<>>)

-----------------------------------------------------------------------------
(* Delete *)

NoneChars == <<"N", "o", "n", "e">>

\* str(x)
PyStr(v) == CASE v.t = "int" -> StrV(IntToStr(v.i))
              [] v.t = "null" -> StrV(NoneChars)
              [] OTHER -> v

\* id: [form: "none" | "scalar" | "list", v: the scalar, l: the list]
\* isinstance(id, Iterable): a list, and a str as well
IsIterable(id) == id.form = "list" \/ (id.form = "scalar" /\ id.v.t = "str")

\* what iterating id yields: a str yields its characters
Iterate(id) ==
    IF id.form = "list" THEN id.l
    ELSE [j \in 1..Len(id.v.s) |-> StrV(<<id.v.s[j]>>)]

\* if not filter_by: raise ValueError
DeleteFilterRaises(filter_by) == IsEmptyMap(filter_by)

Delete_filter(sch, w, c, obj, filter_by) ==
    LET k == Key(obj)
        cols == sch[k].columns
        rows == w[k]
    IN IF DeleteFilterRaises(filter_by) THEN Outcome("ValueError", w, c, <<>>)
       ELSE LET q == _make_operator_query(filter_by, "AND", FALSE)
            IN IF q.err # "none" THEN Outcome(q.err, w, c, <<>>)
               ELSE IF ~WhereOk(cols, q) THEN Outcome("OperationalError", w, c, <<>>)
               ELSE LET w2 == [w EXCEPT ![k] = KeepSeq(rows,
                                  [i \in 1..Len(rows) |->
                                      ~WhereHolds(cols, rows[i], q, filter_by)])]
                    IN Outcome("none", w2, Commit(w2), <<>>)

DeleteCall(sch, w, c, obj, id, filter_by) ==
    LET k == Key(obj)
        cols == sch[k].columns
        rows == w[k]
    IN IF IsIterable(id)
       THEN LET items == Iterate(id)
                ids == [j \in 1..Len(items) |-> PyStr(items[j])]
            IN IF ~HasCol(cols, "id") THEN Outcome("OperationalError", w, c, <<>>)
               ELSE LET ic == ColIndex(cols, "id")
                        w2 == [w EXCEPT ![k] = KeepSeq(rows,
                                 [i \in 1..Len(rows) |->
                                    ~\E j \in 1..Len(ids) :
                                        SqlEq(cols[ic].aff, rows[i][ic], ids[j])])]
                    IN Outcome("none", w2, Commit(w2), <<>>)
       ELSE IF id.form # "none"
            THEN Delete_filter(sch, w, c, obj,
                     [x \in DOMAIN filter_by \cup {"id"} |->
                         IF x = "id" THEN id.v ELSE filter_by[x]])
            ELSE Delete_filter(sch, w, c, obj, filter_by)

-----------------------------------------------------------------------------
(* Update *)

UpdateChecksTypeOnly(data) == IF ~data.isdict THEN "TypeError" ELSE "none"
\* the argument checks of Update.__call__
UpdateArgError(data) ==
    IF ~data.isdict THEN "TypeError"
    ELSE IF IsEmptyMap(data.m) THEN "ValueError"
    ELSE "none"

\* data: [isdict, m: the mapping]
UpdateCall(sch, w, c, obj, data, filter_by) ==
    LET k == Key(obj)
        cols == sch[k].columns
        rows == w[k]
    IN IF UpdateArgError(data) # "none" THEN Outcome(UpdateArgError(data), w, c, <<>>)
       ELSE LET query_coma == _make_operator_query(data.m, ",", FALSE)
                query_operator == _make_operator_query(filter_by, "AND", TRUE)
            IN IF query_coma.err # "none" THEN Outcome(query_coma.err, w, c, <<>>)
               ELSE IF query_operator.err # "none"
                    THEN Outcome(query_operator.err, w, c, <<>>)
               ELSE IF ~SetOk(cols, query_coma)
                       \/ (~IsEmptyMap(filter_by) /\ ~WhereOk(cols, query_operator))
                    THEN Outcome("OperationalError", w, c, <<>>)
               ELSE LET hit(row) == IsEmptyMap(filter_by)
                                    \/ WhereHolds(cols, row, query_operator, filter_by)
                        set(row) == [i \in 1..Len(cols) |->
                                        IF cols[i].name \in DOMAIN data.m
                                        THEN ApplyAffinity(cols[i].aff, data.m[cols[i].name])
                                        ELSE row[i]]
                        new == [i \in 1..Len(rows) |->
                                   IF hit(rows[i]) THEN set(rows[i]) ELSE rows[i]]
                        w2 == [w EXCEPT ![k] = new]
                    IN IF ~UniqueOk(cols, new)
                       THEN Outcome("IntegrityError", w, c, <<>>)
                       ELSE Outcome("none", w2, Commit(w2), <<>>)

-----------------------------------------------------------------------------
(* CreateTable *)

Col(n, aff, u) == [name |-> n, aff |-> aff, unique |-> u]

\* columns: [kind, cols]; kind tells what isinstance answers for the argument:
\*   "seq_str"   a Sequence of str          "seq_mixed" any other Sequence
\*   "map_types" a mapping to BaseType      "map_other" any other mapping
\*   "other"     neither
\* table_primary_key: [isseq, cols]
\* the two isinstance checks; "none" when the statement is executed
ColumnsArgError(columns) ==
    IF columns.kind = "other" THEN "TypeError"
    ELSE IF columns.kind = "seq_str" THEN "none"
    ELSE IF columns.kind # "map_types" THEN "TypeError"
    ELSE "none"

\* CREATE TABLE [IF NOT EXISTS] name (cols[, PRIMARY KEY(pk)])
ExecCreate(sch, name, cols, pk, if_not_exists) ==
    LET k == Lower(name)
        pkcols == IF pk.isseq THEN {pk.cols[i] : i \in 1..Len(pk.cols)} ELSE {}
    IN IF cols = <<>> \/ (pk.isseq /\ pk.cols = <<>>)
       THEN [err |-> "OperationalError", sch |-> sch]
       ELSE IF k \in DOMAIN sch
       THEN IF if_not_exists THEN [err |-> "none", sch |-> sch]
            ELSE [err |-> "OperationalError", sch |-> sch]
       ELSE IF \E p \in pkcols : ~HasCol(cols, p)
       THEN [err |-> "OperationalError", sch |-> sch]
       ELSE [err |-> "none",
             sch |-> [x \in DOMAIN sch \cup {k} |->
                        IF x = k
                        THEN [name |-> name,
                              columns |-> [i \in 1..Len(cols) |->
                                  IF pkcols = {cols[i].name}
                                  THEN [cols[i] EXCEPT !.unique = TRUE]
                                  ELSE cols[i]]]
                        ELSE sch[x]]]

\* the state a call runs on and leaves
St(sch, w, c, reg, err) == [sch |-> sch, w |-> w, c |-> c, reg |-> reg, err |-> err]

CreateTableCall(st, customs, table_name, columns, pk, if_not_exists) ==
    IF ColumnsArgError(columns) # "none"
    THEN [st EXCEPT !.err = ColumnsArgError(columns)]
    ELSE LET r == ExecCreate(st.sch, table_name, columns.cols, pk, if_not_exists)
             w2 == [x \in DOMAIN r.sch |-> IF x \in DOMAIN st.w THEN st.w[x] ELSE <<>>]
         IN IF r.err # "none" THEN [st EXCEPT !.err = r.err]
            ELSE St(r.sch, w2, Commit(w2),
                    initialize_tables(st.reg, r.sch, customs), "none")

-----------------------------------------------------------------------------
(* Table.drop and DB.drop_tables *)

\* Table.drop: the table leaves storage (committed) and the registry
TableDrop(st, obj) ==
    LET k == Key(obj)
    IN IF k \notin DOMAIN st.sch THEN [st EXCEPT !.err = "OperationalError"]
       ELSE LET w2 == [x \in DOMAIN st.w \ {k} |-> st.w[x]]
            IN St([x \in DOMAIN st.sch \ {k} |-> st.sch[x]], w2, Commit(w2),
                  [st.reg EXCEPT
                      !.attrs = IF k \in DOMAIN @ /\ @[k] = obj THEN DelAttr(@, k) ELSE @,
                      !.table_names = {n \in @ : Lower(n) # k}],
                  "none")

\* for table in self.tables: table.drop()
RECURSIVE DropLoop(_, _, _)
DropLoop(st, objs, i) ==
    IF i > Len(objs) \/ st.err # "none" THEN st
    ELSE IF ~IsTable(objs[i]) THEN [st EXCEPT !.err = "AttributeError"]
    ELSE DropLoop(TableDrop(st, objs[i]), objs, i + 1)

\* the orders in which a tuple built from the set table_names can come
Orders(S) == {f \in [1..Cardinality(S) -> S] : \A i, j \in DOMAIN f : i # j => f[i] # f[j]}

drop_tables(st, customs, order) ==
    LET t == TablesRead(st.reg)
    IN IF t.err # "none" THEN [st EXCEPT !.err = t.err]
       ELSE LET objs == [i \in 1..Len(order) |-> t.val[order[i]]]
                d == DropLoop([st EXCEPT !.reg = t.reg], objs, 1)
            IN IF d.err # "none" THEN d
               ELSE [d EXCEPT !.reg = initialize_tables(d.reg, d.sch, customs)]

-----------------------------------------------------------------------------
(* Inputs of the calls *)

IdVals == {IntV(1), StrV(<<"a">>), StrV(<<"a", "b">>)}
NameVals == {StrV(<<"x">>)}

Map1(k, v) == [x \in {k} |-> v]
Map2(k1, v1, k2, v2) == [x \in {k1, k2} |-> IF x = k1 THEN v1 ELSE v2]

\* the mappings over id and name, either key absent or None
RowMaps ==
    {EmptyMap}
    \cup {Map1("id", v) : v \in IdVals \cup {Null}}
    \cup {Map1("name", v) : v \in NameVals \cup {Null}}
    \cup {Map2("id", v, "name", n) : v \in IdVals \cup {Null}, n \in NameVals \cup {Null}}

InsertSingles == RowMaps \cup {Map1("zzz", IntV(1))}

Seqs(S, n) == UNION {[1..m -> S] : m \in 0..n}

InsertInputs ==
    {[form |-> "dict", items |-> <<m>>] : m \in InsertSingles}
    \cup {[form |-> "list", items |-> b] :
            b \in Seqs({Map1("id", v) : v \in {IntV(1), StrV(<<"a">>)}}, MaxBatch)}

Filters ==
    {EmptyMap, Map1("zzz", IntV(1)), Map1("id", Null), Map1("id", IntV(1)),
     Map1("id", StrV(<<"a">>)), Map1("name", StrV(<<"x">>)),
     Map2("id", IntV(1), "name", StrV(<<"x">>)), Map1("name", StrV(<<Quote>>))}

NoId == [form |-> "none", v |-> Null, l |-> <<>>]
DeleteIds ==
    {NoId}
    \cup {[form |-> "scalar", v |-> v, l |-> <<>>] : v \in IdVals}
    \cup {[form |-> "list", v |-> Null, l |-> l] : l \in Seqs(IdVals, MaxBatch)}

\* a filter beside a list of ids is never read
DeleteInputs ==
    {<<id, f>> \in DeleteIds \X Filters : id.form = "list" => f = EmptyMap}

UpdateInputs ==
    {[isdict |-> FALSE, m |-> EmptyMap]}
    \cup {[isdict |-> TRUE, m |-> m] :
            m \in {EmptyMap, Map1("name", Null), Map1("name", StrV(<<"x">>)),
                   Map1("id", IntV(1)), Map1("id", Null),
                   Map2("id", StrV(<<"a">>), "name", StrV(<<"x">>))}}

Sizes == {0, 1}

PlainCols == <<Col("id", "INTEGER", TRUE), Col("name", "", FALSE)>>
ColumnsInputs ==
    {[kind |-> k, cols |-> c] : k \in {"seq_str", "map_types"}, c \in {<<>>, PlainCols}}
    \cup {[kind |-> k, cols |-> <<>>] : k \in {"seq_mixed", "map_other", "other"}}
PkInputs == {[isseq |-> FALSE, cols |-> <<>>], [isseq |-> TRUE, cols |-> <<"id">>]}

CustomChoices == {<<>>, <<TableObj("bar", 0)>>, <<TableObj("Bar", 0)>>}

-----------------------------------------------------------------------------
(* State *)

CurReg == Reg(attrs, table_names, tables_cache, gen)
CurSt == St(schema, working, committed, CurReg, "none")

SetReg(r) ==
    /\ attrs' = r.attrs
    /\ table_names' = r.table_names
    /\ tables_cache' = r.cache
    /\ gen' = r.gen

SetSt(st) ==
    /\ schema' = st.sch
    /\ working' = st.w
    /\ committed' = st.c
    /\ SetReg(st.reg)

Last(op, tbl, err, kind, result) ==
    [op |-> op, tbl |-> tbl, err |-> err, kind |-> kind, result |-> result]

\* the Table handles reachable as db.<name>
Handles == {attrs[k] : k \in {x \in DOMAIN attrs : IsTable(attrs[x])}}

TotalRows(w) == Cardinality(UNION {{<<k, i>> : i \in 1..Len(w[k])} : k \in DOMAIN w})

InitTable(n) == [name |-> n, columns |-> PlainCols]

\* the catalogs a database file can hold when it is opened
InitSchemas ==
    {[k \in K |-> InitTable(IF k = "foo" THEN f ELSE k)] :
        K \in SUBSET {"foo", "path", "create_table"}, f \in {"foo", "Foo"}}

InitWith(sch, customs) ==
    LET r == DBInit(sch, customs)
    IN /\ schema = sch
       /\ committed = [k \in DOMAIN sch |-> <<>>]
       /\ working = [k \in DOMAIN sch |-> <<>>]
       /\ attrs = r.attrs
       /\ table_names = r.table_names
       /\ tables_cache = r.cache
       /\ gen = r.gen
       /\ custom_tables = customs
       /\ last = Last("init", "", "none", "", <<>>)

-----------------------------------------------------------------------------
(* The calls as actions *)

InitializeTables ==
    LET r == initialize_tables(CurReg, schema, custom_tables)
    IN /\ r.gen <= MaxGen
       /\ SetReg(r)
       /\ last' = Last("initialize_tables", "", "none",
                       IF last.op = "initialize_tables" THEN "repeat" ELSE "first", <<>>)
       /\ UNCHANGED <<schema, committed, working, custom_tables>>

Tables ==
    LET t == TablesRead(CurReg)
    IN /\ SetReg(t.reg)
       /\ last' = Last("tables", "", t.err, "", t.val)
       /\ UNCHANGED <<schema, committed, working, custom_tables>>

CreateTable(table_name, columns, pk, if_not_exists) ==
    LET st == CreateTableCall(CurSt, custom_tables, table_name, columns, pk, if_not_exists)
    IN /\ st.reg.gen <= MaxGen
       /\ SetSt(st)
       /\ last' = Last("create_table", table_name, st.err, "", <<>>)
       /\ UNCHANGED custom_tables

DropTables(order) ==
    LET st == drop_tables(CurSt, custom_tables, order)
    IN /\ st.reg.gen <= MaxGen
       /\ SetSt(st)
       /\ last' = Last("drop_tables", "", st.err,
                       IF table_names = {} THEN "none" ELSE "some", <<>>)
       /\ UNCHANGED custom_tables

DropOrders ==
    LET t == TablesRead(CurReg)
    IN IF t.err = "none" THEN Orders(DOMAIN t.val) ELSE {<<>>}

Ran(op, obj, out, kind) ==
    /\ working' = out.w
    /\ committed' = out.c
    /\ last' = Last(op, obj.name, out.err, kind, out.result)
    /\ UNCHANGED <<schema, attrs, table_names, tables_cache, gen, custom_tables>>

Select(obj, size, operator, filter_by) ==
    /\ obj \in Handles /\ Key(obj) \in DOMAIN schema
    /\ Ran("select", obj,
           SelectCall(schema, working, committed, obj, size, operator, filter_by),
           IF IsEmptyMap(filter_by) /\ size = 0 THEN "all" ELSE "some")

Insert(obj, data) ==
    /\ obj \in Handles /\ Key(obj) \in DOMAIN schema
    /\ TotalRows(InsertCall(schema, working, committed, obj, data).w) <= MaxRows
    /\ Ran("insert", obj, InsertCall(schema, working, committed, obj, data),
           IF data.form = "dict"
           THEN (IF working[Key(obj)] = <<>> THEN "fresh" ELSE "single")
           ELSE "batch")

Delete(obj, id, filter_by) ==
    /\ obj \in Handles /\ Key(obj) \in DOMAIN schema
    /\ Ran("delete", obj, DeleteCall(schema, working, committed, obj, id, filter_by),
           id.form)

Update(obj, data, filter_by) ==
    /\ obj \in Handles /\ Key(obj) \in DOMAIN schema
    /\ Ran("update", obj, UpdateCall(schema, working, committed, obj, data, filter_by),
           IF IsEmptyMap(filter_by) THEN "all" ELSE "some")

-----------------------------------------------------------------------------
(* Specifications *)

\* the registry over every catalog and every custom_tables
Init == \E sch \in InitSchemas, customs \in CustomChoices : InitWith(sch, customs)

Next ==
    \/ InitializeTables
    \/ Tables
    \/ \E n \in TableNameUniverse, cols \in ColumnsInputs, pk \in PkInputs,
          ine \in BOOLEAN : CreateTable(n, cols, pk, ine)
    \/ \E order \in DropOrders : DropTables(order)

Spec == Init /\ [][Next]_vars

\* the row operations over a database of the tables foo and bar
InitOps == InitWith([k \in {"foo", "bar"} |-> InitTable(k)], <<>>)

NextOps ==
    \/ \E obj \in Handles, size \in Sizes, op \in Operators, f \in Filters :
          Select(obj, size, op, f)
    \/ \E obj \in Handles, data \in InsertInputs : Insert(obj, data)
    \/ \E obj \in Handles, a \in DeleteInputs : Delete(obj, a[1], a[2])
    \/ \E obj \in Handles, data \in UpdateInputs, f \in Filters : Update(obj, data, f)

SpecOps == InitOps /\ [][NextOps]_vars

\* Insert and the Select without filter
NextRoundTrip ==
    \/ \E obj \in Handles, size \in Sizes : Select(obj, size, "AND", EmptyMap)
    \/ \E obj \in Handles, data \in InsertInputs : Insert(obj, data)

SpecRoundTrip == InitOps /\ [][NextRoundTrip]_vars

\* a database file that already holds rows, and the calls that check their
\* arguments
InitArgs ==
    LET sch == [k \in {"foo", "bar"} |-> InitTable(k)]
        rows == [k \in {"foo", "bar"} |->
                    IF k = "foo" THEN <<<<IntV(1), StrV(<<"x">>)>>>>
                    ELSE <<<<StrV(<<"a">>), Null>>>>]
        r == DBInit(sch, <<>>)
    IN /\ schema = sch
       /\ committed = rows
       /\ working = rows
       /\ attrs = r.attrs
       /\ table_names = r.table_names
       /\ tables_cache = r.cache
       /\ gen = r.gen
       /\ custom_tables = <<>>
       /\ last = Last("init", "", "none", "", <<>>)

NextArgs ==
    \/ \E obj \in Handles, size \in Sizes, op \in Operators, f \in Filters :
          Select(obj, size, op, f)
    \/ \E obj \in Handles, a \in DeleteInputs : Delete(obj, a[1], a[2])
    \/ \E obj \in Handles, data \in UpdateInputs, f \in Filters : Update(obj, data, f)
    \/ \E n \in TableNameUniverse, cols \in ColumnsInputs, pk \in PkInputs,
          ine \in BOOLEAN : CreateTable(n, cols, pk, ine)

SpecArgs == InitArgs /\ [][NextArgs]_vars

-----------------------------------------------------------------------------
(* The registry: claims checked under Spec *)

RegNext == Reg(attrs', table_names', tables_cache', gen')

\* C1: a second initialize_tables() right after a first one leaves the
\* registry as the first left it: the same table names, no name held twice
\* up to case, every bound name on the very same Table object.
C1_DiscoveryIdempotent ==
    [][(last.op = "initialize_tables" /\ InitializeTables) =>
          /\ table_names' = table_names
          /\ attrs' = attrs
          /\ \A m, n \in table_names' : Lower(m) = Lower(n) => m = n]_vars

C1_Witness ==
    /\ last.op = "initialize_tables" /\ last.kind = "repeat"
    /\ Handles # {} /\ table_names # {}

\* C2: with no custom tables, once drop_tables() has returned the registry
\* is empty: table_names is empty, tables() is the empty tuple, and every
\* table that was bound is gone from storage and is no handle any more.
C2_DropTablesEmptiesRegistry ==
    [][\A order \in DropOrders :
          (custom_tables = <<>> /\ DropTables(order) /\ last'.err = "none") =>
             /\ table_names' = {}
             /\ TablesRead(RegNext).err = "none"
             /\ DOMAIN TablesRead(RegNext).val = {}
             /\ \A n \in table_names :
                   /\ Lower(n) \notin DOMAIN schema'
                   /\ ~(Lower(n) \in DOMAIN attrs' /\ IsTable(attrs'[Lower(n)]))]_vars

C2_Witness ==
    /\ last.op = "drop_tables" /\ last.err = "none" /\ last.kind = "some"
    /\ custom_tables = <<>> /\ table_names = {}

\* C3: whenever create_table(name, ...) returns, the DB has a Table handle
\* for the new table under the lower-cased name, and the name is in
\* table_names and the handle in tables().
C3_CreatedTableAddressable ==
    (last.op = "create_table" /\ last.err = "none") =>
        LET k == Lower(last.tbl)
        IN /\ k \in DOMAIN attrs
           /\ IsTable(attrs[k])
           /\ Key(attrs[k]) = k
           /\ k \in table_names
           /\ TablesRead(CurReg).err = "none"
           /\ \E n \in DOMAIN TablesRead(CurReg).val : TablesRead(CurReg).val[n] = attrs[k]

\* C4: tables() returns, without error, exactly one Table handle per name of
\* table_names, each the handle bound now.
C4_TablesEqualsRegistry ==
    last.op = "tables" =>
        /\ last.err = "none"
        /\ DOMAIN last.result = table_names
        /\ \A n \in DOMAIN last.result :
              /\ IsTable(last.result[n])
              /\ Lower(n) \in DOMAIN attrs
              /\ last.result[n] = attrs[Lower(n)]

-----------------------------------------------------------------------------
(* The row operations: claims checked under SpecOps *)

Dict(m) == [form |-> "dict", items |-> <<m>>]
Cols(obj) == schema[Key(obj)].columns
ColSet(obj) == {Cols(obj)[i].name : i \in 1..Len(Cols(obj))}

\* every column of the table resolves to None in the mapping
AllNull(obj, m) == \A c \in ColSet(obj) : Get(m, c) = Null

\* C5: Insert of one mapping whose every table column resolves to None
\* writes no row, raises nothing and leaves the table as it was.
C5_InsertAllEmptyNoOp ==
    [][\A obj \in Handles, m \in InsertSingles :
          (last'.op = "insert" /\ obj.name = last'.tbl /\ AllNull(obj, m)
           /\ Insert(obj, Dict(m))) =>
             /\ last'.err = "none"
             /\ working' = working
             /\ committed' = committed]_vars

\* C6: when a batched Insert raises a storage-engine error at some row, no
\* row of the batch is in the table: the connection sees the rows it saw
\* before, so that no later commit can make one durable.
C6_FailedBatchAborts ==
    [][\A obj \in Handles, data \in InsertInputs :
          (last'.op = "insert" /\ last'.err = "IntegrityError" /\ obj.name = last'.tbl
           /\ Insert(obj, data)) =>
             working' = working]_vars

\* the row matches every filter: None means IS NULL, a value means equal
Matches(obj, row, f) ==
    \A k \in DOMAIN f :
        IF f[k] = Null THEN row[ColIndex(Cols(obj), k)] = Null
        ELSE row[ColIndex(Cols(obj), k)] = f[k]

\* the rows after every matching row took the assignments
Assigned(obj, rows, m, f) ==
    [i \in 1..Len(rows) |->
        IF Matches(obj, rows[i], f)
        THEN [c \in 1..Len(Cols(obj)) |->
                 IF Cols(obj)[c].name \in DOMAIN m THEN m[Cols(obj)[c].name]
                 ELSE rows[i][c]]
        ELSE rows[i]]

NoQuote(f) == \A k \in DOMAIN f : f[k] # StrV(<<Quote>>)

\* C7: after Update(data, **filters) with a non-empty mapping over the
\* columns (numbers, strings or None) the rows matching all filters hold the
\* values of data in its columns and nothing else changed. (Stated for the
\* calls that break no UNIQUE constraint and whose filter text has no quote.)
C7_UpdateAssignsFilteredRows ==
    [][\A obj \in Handles, data \in UpdateInputs, f \in Filters :
          (/\ last'.op = "update" /\ obj.name = last'.tbl
           /\ data.isdict /\ ~IsEmptyMap(data.m)
           /\ DOMAIN f \subseteq ColSet(obj) /\ NoQuote(f)
           /\ UniqueOk(Cols(obj), Assigned(obj, working[Key(obj)], data.m, f))
           /\ Update(obj, data, f)) =>
             /\ last'.err = "none"
             /\ working' = [working EXCEPT ![Key(obj)] =
                               Assigned(obj, working[Key(obj)], data.m, f)]]_vars

IdSet(id) == IF id.form = "list" THEN {id.l[i] : i \in 1..Len(id.l)} ELSE {id.v}

\* C8: Delete with a list of ids, or with one id value (int or str), removes
\* exactly the rows whose id is one of them and touches no other row or table.
C8_DeleteByIdExact ==
    [][\A obj \in Handles, id \in DeleteIds \ {NoId} :
          (last'.op = "delete" /\ obj.name = last'.tbl /\ Delete(obj, id, EmptyMap)) =>
             /\ last'.err = "none"
             /\ working' = [working EXCEPT ![Key(obj)] =
                   KeepSeq(@, [i \in 1..Len(@) |->
                                  @[i][ColIndex(Cols(obj), "id")] \notin IdSet(id)])]]_vars

-----------------------------------------------------------------------------
(* The round trip: checked under SpecRoundTrip *)

\* the mapping over the declared columns, None where m has no key
Projected(obj, m) == [c \in ColSet(obj) |-> Get(m, c)]

-----------------------------------------------------------------------------
(* The argument checks: checked under SpecArgs *)

NothingDone ==
    UNCHANGED <<schema, committed, working, attrs, table_names, tables_cache, gen>>

ValidOperators == {"AND", "and", "OR", "or", ","}

\* C10: Delete with neither id nor filter (ValueError), Update with a
\* non-mapping (TypeError) or an empty mapping (ValueError), CreateTable with
\* columns that are no sequence of str and no mapping to type descriptors
\* (TypeError), and a clause built with an operator outside AND / OR / ','
\* (ValueError) raise with storage and registry exactly as before the call.
C10_InvalidArgumentsNoEffect ==
    [][/\ last'.op = "delete" =>
            \A obj \in Handles :
               (obj.name = last'.tbl /\ Delete(obj, NoId, EmptyMap)) =>
                   (last'.err = "ValueError" /\ NothingDone)
       /\ last'.op = "update" =>
            \A obj \in Handles, data \in UpdateInputs, f \in Filters :
               /\ (obj.name = last'.tbl /\ ~data.isdict /\ Update(obj, data, f)) =>
                     (last'.err = "TypeError" /\ NothingDone)
               /\ (obj.name = last'.tbl /\ data.isdict /\ IsEmptyMap(data.m)
                   /\ Update(obj, data, f)) =>
                     (last'.err = "ValueError" /\ NothingDone)
       /\ last'.op = "select" =>
            \A obj \in Handles, size \in Sizes, op \in Operators \ ValidOperators,
               f \in Filters :
               (obj.name = last'.tbl /\ ~IsEmptyMap(f) /\ Select(obj, size, op, f)) =>
                     (last'.err = "ValueError" /\ NothingDone)
       /\ last'.op = "create_table" =>
            \A n \in TableNameUniverse, cols \in ColumnsInputs, pk \in PkInputs,
               ine \in BOOLEAN :
               (n = last'.tbl /\ cols.kind \in {"other", "seq_mixed", "map_other"}
                /\ CreateTable(n, cols, pk, ine)) =>
                     (last'.err = "TypeError" /\ NothingDone)]_vars

C10_Witness ==
    /\ last.op = "update" /\ last.err = "ValueError"
    /\ TotalRows(working) > 0 /\ Handles # {}

====
